---- MODULE Spec2Model ----
(***************************************************************************)
(* Model of the BiskutRaya classification web application (src/main.py):  *)
(* the upload handler of "/", the inference call run_roboflow_workflow and *)
(* its parsing of the workflow response, the upload directory, and the two *)
(* GET routes /uploads/<filename> and /biskut/<biscuit>.                   *)
(*                                                                         *)
(* Python strings that the code takes apart (file names) are sequences of  *)
(* one-character strings; strings it only compares or passes on (labels,   *)
(* dictionary keys, flash messages) are TLA+ strings.  JSON values carry   *)
(* their Python type in the field t.                                       *)
(***************************************************************************)
EXTENDS Integers, Sequences, FiniteSets, TLC

VARIABLES
    client,     \* the module-level Roboflow client: "client" or None (main.py:33-41)
    disk,       \* the upload directory: the bytes of each file, by file name
    stores,     \* history: per file name, what the stores under that name wrote
    served,     \* number of requests answered and gone (when served one at a time)
    req,        \* the requests being served, one record per request
    result,     \* a workflow response handed to the response parsing on its own
    parsed      \* what run_roboflow_workflow returned for result, or NotRun

vars == <<client, disk, stores, served, req, result, parsed>>

-----------------------------------------------------------------------------
(* Bounds of the model.                                                    *)

\* longest "predictions" list in a generated workflow response
MaxPreds == 2
\* longest generated workflow response (a list of result objects)
MaxElems == 2

-----------------------------------------------------------------------------
(* JSON / Python values.                                                   *)

None == [t |-> "null"]
Num(n) == [t |-> "num", v |-> n]
Str(s) == [t |-> "str", v |-> s]
List(q) == [t |-> "list", v |-> q]
Dict(f) == [t |-> "dict", v |-> f]

\* the outcome of an expression that raises (AttributeError, TypeError, KeyError, ...)
Raised == [t |-> "raise"]

\* the empty dict {} and the empty list []
EmptyDict == Dict(<<>>)
EmptyList == List(<<>>)

\* a dict with the single key k
Dict1(k, val) == Dict([x \in {k} |-> val])

\* Python truth value of a JSON value, as `if predictions` and
\* `if predicted_class` take it
Truthy(val) ==
    CASE val.t = "null" -> FALSE
      [] val.t = "num"  -> val.v # 0
      [] val.t = "str"  -> val.v # ""
      [] val.t = "list" -> Len(val.v) > 0
      [] val.t = "dict" -> DOMAIN val.v # {}

\* d.get(key, default): only a dict has .get, anything else raises AttributeError
Get(d, key, default) ==
    IF d.t = "dict"
    THEN IF key \in DOMAIN d.v THEN d.v[key] ELSE default
    ELSE Raised

\* x[0] for a truthy x: the first item of a list; a dict with string keys has
\* no key 0 (KeyError); a number is not subscriptable (TypeError).
\* (A non-empty str gives its first character: see ClassOfFirst.)
Index0(x) ==
    CASE x.t = "list" -> x.v[1]
      [] x.t = "dict" -> Raised
      [] x.t = "num"  -> Raised

\* whether `key in x` can be evaluated: a number or null is not iterable (TypeError)
InRaises(x) == x.t \in {"num", "null"}

\* `key in x` for a dict (its keys) or a list (its items)
In(key, x) ==
    CASE x.t = "dict" -> key \in DOMAIN x.v
      [] x.t = "list" -> \E i \in 1..Len(x.v) : x.v[i] = Str(key)

\* x[key] once `key in x` held: the value of a dict; a list subscripted by a
\* string raises TypeError
Subscript(x, key) ==
    CASE x.t = "dict" -> x.v[key]
      [] x.t = "list" -> Raised

STEPS_KEY == "$steps.model.predictions"

\* main.py:77-80, the fallback: first_result["top_class"] if present, else the
\* function's final `return None`
TopClassFallback(first_result) ==
    IF In("top_class", first_result)
    THEN Subscript(first_result, "top_class")
    ELSE None

\* main.py:73-78 for the value of `predictions`. A non-empty str has a
\* one-character predictions[0], which cannot contain "class".
ClassOfFirst(predictions, first_result) ==
    IF ~Truthy(predictions) THEN TopClassFallback(first_result)
    ELSE IF predictions.t = "str" THEN TopClassFallback(first_result)
    ELSE IF Index0(predictions) = Raised THEN Raised
    ELSE IF InRaises(Index0(predictions)) THEN Raised
    ELSE IF In("class", Index0(predictions))
         THEN Subscript(Index0(predictions), "class")
         ELSE TopClassFallback(first_result)

\* main.py:69-80, the parsing of the workflow response inside the try block:
\* the value returned, or Raised when an expression raises
ParseResponse(res) ==
    IF res.t = "list" /\ Len(res.v) > 0
    THEN LET first_result == res.v[1]
             step == Get(first_result, STEPS_KEY, EmptyDict)
             predictions == IF step = Raised THEN Raised
                            ELSE Get(step, "predictions", EmptyList)
         IN  IF predictions = Raised THEN Raised
             ELSE ClassOfFirst(predictions, first_result)
    ELSE None

\* main.py:82-84 re-raising instead of returning None
ExceptValue_reraise == Raised

\* main.py:82-84: what run_roboflow_workflow returns when anything in its
\* try block raised
ExceptValue == None

\* main.py:49,82-84, the try/except around the parsing
ExceptReturnsNone(outcome) == IF outcome = Raised THEN ExceptValue ELSE outcome

\* what run_roboflow_workflow returns once client.run_workflow returned res
LabelOfResponse(res) == ExceptReturnsNone(ParseResponse(res))

-----------------------------------------------------------------------------
(* The workflow responses the remote service is taken to answer with: it   *)
(* guarantees no schema, so every field may be absent, null or of another  *)
(* type.                                                                   *)

RECURSIVE SeqsUpTo(_, _)
SeqsUpTo(S, n) ==
    IF n = 0 THEN {<<>>}
    ELSE SeqsUpTo(S, n - 1) \cup
         {<<x>> \o q : x \in S, q \in {p \in SeqsUpTo(S, n - 1) : Len(p) = n - 1}}

ClassVals == {Str("ginger"), Str("")}
TopVals == {Str("oreo"), Str("")}

Entries == {Num(7), EmptyDict} \cup {Dict1("class", c) : c \in ClassVals}
PredLists == {List(q) : q \in SeqsUpTo(Entries, MaxPreds)}
PredictionsVals == {None, Num(5)} \cup PredLists
StepVals == {None, Str("n/a"), EmptyDict} \cup
            {Dict1("predictions", p) : p \in PredictionsVals}

Elements ==
    {Str("oops"), EmptyDict}
    \cup {Dict1(STEPS_KEY, s) : s \in StepVals}
    \cup {Dict1("top_class", c) : c \in TopVals}
    \cup {Dict([k \in {STEPS_KEY, "top_class"} |-> IF k = STEPS_KEY THEN s ELSE c]) :
            s \in StepVals, c \in TopVals}

\* what may follow the first result object
TailElements ==
    {EmptyDict, Dict1("top_class", Str("oatmeal")),
     Dict1(STEPS_KEY, Dict1("predictions", List(<<Dict1("class", Str("oatmeal"))>>)))}

Responses ==
    {None, Dict1("top_class", Str("oreo")), EmptyList}
    \cup {List(<<e>> \o tail) : e \in Elements, tail \in SeqsUpTo(TailElements, MaxElems - 1)}

NotRun == [t |-> "notrun"]

-----------------------------------------------------------------------------
(* File names: allowed_file and secure_filename.                           *)

\* main.py:18
ALLOWED_EXTENSIONS ==
    {<<"p", "n", "g">>, <<"j", "p", "g">>, <<"j", "p", "e", "g">>, <<"g", "i", "f">>}

\* str.lower() on the characters the model's file names use
LowerChar(c) ==
    CASE c = "G" -> "g"
      [] c = "I" -> "i"
      [] c = "F" -> "f"
      [] OTHER   -> c

Lower(s) == [i \in 1..Len(s) |-> LowerChar(s[i])]

\* '.' in filename
HasDot(filename) == \E i \in 1..Len(filename) : filename[i] = "."

\* filename.rsplit('.', 1)[1]: what follows the last '.'
AfterLastDot(filename) ==
    LET last == CHOOSE i \in 1..Len(filename) :
                    /\ filename[i] = "."
                    /\ \A j \in (i + 1)..Len(filename) : filename[j] # "."
    IN  SubSeq(filename, last + 1, Len(filename))

\* a slip of allowed_file: the extension is never compared
allowed_file_any_ext(filename) == HasDot(filename)

\* main.py:44-45
allowed_file(filename) ==
    HasDot(filename) /\ Lower(AfterLastDot(filename)) \in ALLOWED_EXTENSIONS

\* werkzeug's secure_filename, step 2: "_".join(filename.split()) after the
\* path separator became a space: runs of spaces become one "_", leading and
\* trailing ones go
RECURSIVE JoinWords(_, _, _)
JoinWords(s, out, gap) ==
    IF s = <<>> THEN out
    ELSE IF Head(s) = " " THEN JoinWords(Tail(s), out, out # <<>>)
    ELSE JoinWords(Tail(s), (IF gap THEN Append(out, "_") ELSE out) \o <<Head(s)>>, FALSE)

\* the characters [A-Za-z0-9_.-] among those the model's file names use
SafeChar(c) == c \in {"a", "b", "e", "x", "p", "n", "g", "G", "I", "F", "_", ".", "-"}

RECURSIVE StripLeft(_)
StripLeft(s) ==
    IF s # <<>> /\ Head(s) \in {".", "_"} THEN StripLeft(Tail(s)) ELSE s

RECURSIVE StripRight(_)
StripRight(s) ==
    IF s # <<>> /\ s[Len(s)] \in {".", "_"}
    THEN StripRight(SubSeq(s, 1, Len(s) - 1)) ELSE s

\* main.py:97, werkzeug.utils.secure_filename on ASCII names (POSIX):
\* os.sep -> " ", words joined by "_", characters outside [A-Za-z0-9_.-]
\* dropped, then .strip("._")
secure_filename(filename) ==
    LET spaced == [i \in 1..Len(filename) |->
                     IF filename[i] = "/" THEN " " ELSE filename[i]]
        joined == JoinWords(spaced, <<>>, FALSE)
        kept == SelectSeq(joined, SafeChar)
    IN  StripRight(StripLeft(kept))

-----------------------------------------------------------------------------
(* base64, as run_roboflow_workflow encodes the image it read.             *)

\* the 65th symbol, "="
Pad == 64

\* b64encode that forgets the final group of fewer than three bytes
RECURSIVE b64encode_dropping_tail(_)
b64encode_dropping_tail(b) ==
    IF Len(b) < 3 THEN <<>>
    ELSE <<b[1] \div 4, (b[1] % 4) * 16 + (b[2] \div 16),
           (b[2] % 16) * 4 + (b[3] \div 64), b[3] % 64>>
         \o b64encode_dropping_tail(SubSeq(b, 4, Len(b)))

\* main.py:56, base64.b64encode: bytes (0..255) to symbols (the index of each
\* character in the base64 alphabet, Pad for "=")
RECURSIVE b64encode(_)
b64encode(b) ==
    IF Len(b) = 0 THEN <<>>
    ELSE IF Len(b) = 1
         THEN <<b[1] \div 4, (b[1] % 4) * 16, Pad, Pad>>
    ELSE IF Len(b) = 2
         THEN <<b[1] \div 4, (b[1] % 4) * 16 + (b[2] \div 16), (b[2] % 16) * 4, Pad>>
    ELSE <<b[1] \div 4, (b[1] % 4) * 16 + (b[2] \div 16),
           (b[2] % 16) * 4 + (b[3] \div 64), b[3] % 64>>
         \o b64encode(SubSeq(b, 4, Len(b)))

\* the inverse the receiving service applies (RFC 4648 decoding)
RECURSIVE b64decode(_)
b64decode(s) ==
    IF Len(s) < 4 THEN <<>>
    ELSE LET b1 == s[1] * 4 + (s[2] \div 16)
             b2 == (s[2] % 16) * 16 + (s[3] \div 4)
             b3 == (s[3] % 4) * 64 + s[4]
         IN  (IF s[3] = Pad THEN <<b1>>
              ELSE IF s[4] = Pad THEN <<b1, b2>>
              ELSE <<b1, b2, b3>>) \o b64decode(SubSeq(s, 5, Len(s)))

-----------------------------------------------------------------------------
(* Specification of the response parsing alone.                            *)

InitParse ==
    /\ result \in Responses
    /\ parsed = NotRun
    /\ client = "client"
    /\ disk = <<>>
    /\ stores = <<>>
    /\ served = 0
    /\ req = <<>>

\* run_roboflow_workflow from the point where client.run_workflow returned result
RunParse ==
    /\ parsed = NotRun
    /\ parsed' = LabelOfResponse(result)
    /\ UNCHANGED <<client, disk, stores, served, req, result>>

NextParse == RunParse

SpecParse == InitParse /\ [][NextParse]_vars

-----------------------------------------------------------------------------
(* What the claims about the response parsing say, read off the response.  *)

IsNonEmptyList(x) == x.t = "list" /\ Len(x.v) > 0

\* the response's first element has a '$steps.model.predictions'.predictions
\* list that is non-empty and whose first entry has a 'class' attribute
HasPredictedClass(res) ==
    /\ IsNonEmptyList(res)
    /\ res.v[1].t = "dict"
    /\ STEPS_KEY \in DOMAIN res.v[1].v
    /\ res.v[1].v[STEPS_KEY].t = "dict"
    /\ "predictions" \in DOMAIN res.v[1].v[STEPS_KEY].v
    /\ IsNonEmptyList(res.v[1].v[STEPS_KEY].v["predictions"])
    /\ res.v[1].v[STEPS_KEY].v["predictions"].v[1].t = "dict"
    /\ "class" \in DOMAIN res.v[1].v[STEPS_KEY].v["predictions"].v[1].v

PredictedClass(res) == res.v[1].v[STEPS_KEY].v["predictions"].v[1].v["class"]

\* the response's first element has a top-level 'top_class' field
HasTopClass(res) ==
    /\ IsNonEmptyList(res)
    /\ res.v[1].t = "dict"
    /\ "top_class" \in DOMAIN res.v[1].v

TopClass(res) == res.v[1].v["top_class"]

\* the response cut down to its first element, and that element's
\* predictions list cut down to its first prediction
FirstOnly(res) ==
    IF ~IsNonEmptyList(res) THEN res
    ELSE IF HasPredictedClass(res)
         THEN List(<<Dict([k \in DOMAIN res.v[1].v |->
                             IF k = STEPS_KEY
                             THEN Dict([j \in DOMAIN res.v[1].v[STEPS_KEY].v |->
                                          IF j = "predictions"
                                          THEN List(<<res.v[1].v[STEPS_KEY].v["predictions"].v[1]>>)
                                          ELSE res.v[1].v[STEPS_KEY].v[j]])
                             ELSE res.v[1].v[k]])>>)
         ELSE List(<<res.v[1]>>)

\* C3: the parsing is a strict short-circuiting chain over the first element:
\* the first prediction's 'class' if there is one (even beside 'top_class'),
\* otherwise 'top_class' if the element has it, otherwise none; and nothing
\* but the first element and the first prediction is consulted.
C3_StrictChain ==
    parsed # NotRun =>
        /\ parsed = IF HasPredictedClass(result) THEN PredictedClass(result)
                    ELSE IF HasTopClass(result) THEN TopClass(result)
                    ELSE None
        /\ parsed = LabelOfResponse(FirstOnly(result))

\* C9: whenever the first element has 'top_class' and step 2 yields no class
\* (field absent, null, not a mapping, no list, empty list, first entry
\* without 'class'), the parsing returns the 'top_class' value.
C9_TopClassWhenNoClass ==
    (parsed # NotRun /\ HasTopClass(result) /\ ~HasPredictedClass(result))
        => parsed = TopClass(result)

\* The parts of C3 and C9 that the code does satisfy (not claims; kept to
\* show where the divergence is): the chain holds whenever no expression of
\* the parsing raises, and the tail of the response is never consulted.
ChainWhenNothingRaises ==
    (parsed # NotRun /\ ParseResponse(result) # Raised) =>
        parsed = IF HasPredictedClass(result) THEN PredictedClass(result)
                 ELSE IF HasTopClass(result) THEN TopClass(result)
                 ELSE None

OnlyFirstConsulted ==
    parsed # NotRun => parsed = LabelOfResponse(FirstOnly(result))

-----------------------------------------------------------------------------
(* The web application: requests served concurrently over one upload       *)
(* directory.                                                              *)

\* number of requests served (each may overlap with the others)
NumRequests == 2

Requests == 1..NumRequests

\* the file names a browser may submit in the form field "file"
FileNames ==
    { <<>>,
      <<"a">>,
      <<"p", "n", "g">>,
      <<"a", ".">>,
      <<"a", ".", "e", "x", "e">>,
      <<"a", ".", "p", "n", "g", ".", "e", "x", "e">>,
      <<"a", ".", "p", "n", "g">>,
      <<".", ".", "/", "a", ".", "p", "n", "g">>,
      <<"b", ".", "G", "I", "F">> }

\* the image bytes a browser may submit
Contents == {<<7>>, <<7, 9>>}

\* request.files.get('file'): None when the field is missing, else a
\* FileStorage with the submitted name and bytes
NoFileField == [present |-> FALSE, filename |-> <<>>, stream |-> <<>>]
FileStorage(name, bytes) == [present |-> TRUE, filename |-> name, stream |-> bytes]

Submissions ==
    {NoFileField} \cup {FileStorage(n, b) : n \in FileNames, b \in Contents}

\* the names asked of GET /uploads/<filename>
RetrieveNames ==
    {<<"a", ".", "p", "n", "g">>, <<"b", ".", "G", "I", "F">>, <<"x", ".", "p", "n", "g">>}

\* templates/biscuits/<name>.html that exist, and the labels asked of
\* GET /biskut/<biscuit>
Templates == {"oatmeal", "ginger"}
BiscuitArgs == {"oatmeal", "Oatmeal", "unknown_biscuit"}

\* str.lower() on the labels asked for
LowerLabel(b) == IF b = "Oatmeal" THEN "oatmeal" ELSE b

Bytes(b) == [t |-> "bytes", v |-> b]
Name(n) == [t |-> "name", v |-> n]
Template(b) == [t |-> "template", v |-> b]
NoRecipeMessage(b) == [t |-> "norecipe", v |-> b]

Response(status, kind, body) == [status |-> status, kind |-> kind, body |-> body]

NoResponse == Response(0, "none", None)
\* render_template('index.html')
UploadForm == Response(200, "form", None)
\* redirect(request.url)
RedirectToSelf == Response(302, "redirect_self", None)
\* redirect(url_for('show_recipe', biscuit=label))
RedirectToRecipe(label) == Response(302, "redirect_recipe", label)
\* an exception left the view function: Flask answers 500
Unhandled == Response(500, "unhandled", None)

IdleRequest ==
    [ pc |-> "idle", route |-> "", method |-> "", arg |-> None,
      file |-> NoFileField, filename |-> <<>>,
      wrote |-> FALSE, saved |-> FALSE, fileRead |-> FALSE, raisedIn |-> "", calls |-> 0,
      image_b64 |-> <<>>, predicted_class |-> NotRun,
      flashed |-> <<>>, resp |-> NoResponse ]

Init ==
    /\ client \in {"client", "None"}
    /\ disk = <<>>
    /\ stores = <<>>
    /\ served = 0
    /\ req = [r \in Requests |-> IdleRequest]
    /\ result = None
    /\ parsed = NotRun

\* the file system after `bytes` were written to `name`
Written(d, name, bytes) ==
    [n \in DOMAIN d \cup {name} |-> IF n = name THEN bytes ELSE d[n]]

\* main.py:92, `not file or file.filename == ''` without the filename test
NoFileSelected_missing_only(file) == ~file.present

\* main.py:92, `not file or file.filename == ''` (a FileStorage is falsy
\* when its filename is empty)
NoFileSelected(file) ==
    (~file.present \/ file.filename = <<>>) \/ file.filename = <<>>

\* main.py:102-106 with `is not None` in place of the truth test
AfterPrediction_not_none(label) ==
    IF label # None
    THEN [resp |-> RedirectToRecipe(label), flashed |-> <<>>]
    ELSE [resp |-> UploadForm, flashed |-> <<"Prediction failed or returned no result.">>]

\* main.py:102-110, what upload_file does with the value
\* run_roboflow_workflow returned
AfterPrediction(label) ==
    IF Truthy(label)
    THEN [resp |-> RedirectToRecipe(label), flashed |-> <<>>]
    ELSE [resp |-> UploadForm, flashed |-> <<"Prediction failed or returned no result.">>]

\* the request r has not arrived yet
Arrives(r) == req[r].pc = "idle"

\* main.py:87-88,110: GET /
GetIndex(r) ==
    /\ Arrives(r)
    /\ req' = [req EXCEPT ![r] = [@ EXCEPT !.pc = "done", !.route = "upload_file",
                                            !.method = "GET", !.resp = UploadForm]]
    /\ UNCHANGED <<client, disk, stores, served, result, parsed>>

\* main.py:89-97,107-110: POST / up to the call of file.save
PostUpload(r) ==
    /\ Arrives(r)
    /\ \E file \in Submissions :
        LET base == [req[r] EXCEPT !.route = "upload_file", !.method = "POST",
                                   !.file = file]
        IN  req' = [req EXCEPT ![r] =
                IF NoFileSelected(file)
                THEN [base EXCEPT !.pc = "done",
                                  !.flashed = <<"No image file selected.">>,
                                  !.resp = RedirectToSelf]
                ELSE IF allowed_file(file.filename)
                THEN [base EXCEPT !.pc = "save",
                                  !.filename = secure_filename(file.filename)]
                ELSE [base EXCEPT !.pc = "done",
                                  !.flashed = <<"Invalid file type.">>,
                                  !.resp = UploadForm]]
    /\ UNCHANGED <<client, disk, stores, served, result, parsed>>

\* history: the store under `name` wrote `bytes` and then completed or failed
Stored(h, name, bytes, completed) ==
    Written(h, name,
            [ last |-> Bytes(bytes),
              completed |-> IF completed THEN Bytes(bytes)
                            ELSE IF name \in DOMAIN h THEN h[name].completed
                            ELSE None,
              n |-> IF name \in DOMAIN h THEN h[name].n + 1 ELSE 1 ])

\* file.save that leaves a file of the same name as it is
SaveFile_keeping_existing(r) ==
    /\ req[r].pc = "save"
    /\ req[r].filename # <<>>
    /\ disk' = IF req[r].filename \in DOMAIN disk THEN disk
               ELSE Written(disk, req[r].filename, req[r].file.stream)
    /\ stores' = Stored(stores, req[r].filename, req[r].file.stream, TRUE)
    /\ req' = [req EXCEPT ![r] = [@ EXCEPT !.pc = "classify", !.wrote = TRUE,
                                            !.saved = TRUE]]
    /\ UNCHANGED <<client, served, result, parsed>>

\* main.py:98-99: file.save(filepath) succeeds; an existing file is replaced
SaveFile(r) ==
    /\ req[r].pc = "save"
    /\ req[r].filename # <<>>
    /\ disk' = Written(disk, req[r].filename, req[r].file.stream)
    /\ stores' = Stored(stores, req[r].filename, req[r].file.stream, TRUE)
    /\ req' = [req EXCEPT ![r] = [@ EXCEPT !.pc = "classify", !.wrote = TRUE,
                                            !.saved = TRUE]]
    /\ UNCHANGED <<client, served, result, parsed>>

\* main.py:99: file.save raises before the file is opened (the path cannot
\* be opened for writing); nothing around it catches the error
SaveFailsToOpen(r) ==
    /\ req[r].pc = "save"
    /\ req' = [req EXCEPT ![r] = [@ EXCEPT !.pc = "done", !.resp = Unhandled]]
    /\ UNCHANGED <<client, disk, stores, served, result, parsed>>

\* main.py:99: file.save opened the file (truncating it) and raises after
\* k bytes were written (the disk is full, ...)
SaveFailsWriting(r) ==
    /\ req[r].pc = "save"
    /\ req[r].filename # <<>>
    /\ \E k \in 0..(Len(req[r].file.stream) - 1) :
        /\ disk' = Written(disk, req[r].filename, SubSeq(req[r].file.stream, 1, k))
        /\ stores' = Stored(stores, req[r].filename, SubSeq(req[r].file.stream, 1, k), FALSE)
    /\ req' = [req EXCEPT ![r] = [@ EXCEPT !.pc = "done", !.wrote = TRUE,
                                            !.resp = Unhandled]]
    /\ UNCHANGED <<client, served, result, parsed>>

\* main.py:50, `if not client` that lets every client through
ClientMissing_never(c) == FALSE

\* main.py:50, `if not client`
ClientMissing(c) == c = "None"

\* main.py:101-110: run_roboflow_workflow returned (or raised) `ret`
Finished(q, ret) ==
    IF ret = Raised
    THEN [q EXCEPT !.pc = "done", !.resp = Unhandled]
    ELSE [q EXCEPT !.pc = "done", !.predicted_class = ret,
                   !.resp = AfterPrediction(ret).resp,
                   !.flashed = AfterPrediction(ret).flashed]

\* main.py:50-52: the client was never initialized
WorkflowNoClient(r) ==
    /\ req[r].pc = "classify"
    /\ ClientMissing(client)
    /\ req' = [req EXCEPT ![r] = Finished(@, None)]
    /\ UNCHANGED <<client, disk, stores, served, result, parsed>>

\* main.py:55-56: the image is read back from the upload directory and encoded
ReadImage(r) ==
    /\ req[r].pc = "classify"
    /\ ~ClientMissing(client)
    /\ req[r].filename \in DOMAIN disk
    /\ req' = [req EXCEPT ![r] = [@ EXCEPT !.pc = "call", !.fileRead = TRUE,
                                            !.image_b64 = b64encode(disk[req[r].filename])]]
    /\ UNCHANGED <<client, disk, stores, served, result, parsed>>

\* main.py:55-56,82-84: open or read raises (an I/O error)
ReadImageFails(r) ==
    /\ req[r].pc = "classify"
    /\ ~ClientMissing(client)
    /\ req' = [req EXCEPT ![r] = Finished([@ EXCEPT !.fileRead = TRUE, !.raisedIn = "read"],
                                          ExceptValue)]
    /\ UNCHANGED <<client, disk, stores, served, result, parsed>>

\* the values the parsing can return for the responses of the service
WorkflowLabels == {LabelOfResponse(res) : res \in Responses}

\* main.py:59-80: client.run_workflow returns a response, which is parsed
CallWorkflow(r) ==
    /\ req[r].pc = "call"
    /\ client # "None"
    /\ \E label \in WorkflowLabels :
        req' = [req EXCEPT ![r] = Finished([@ EXCEPT !.calls = @ + 1], label)]
    /\ UNCHANGED <<client, disk, stores, served, result, parsed>>

\* main.py:59-63,82-84: client.run_workflow raises (network or remote error;
\* AttributeError when client is None)
CallWorkflowFails(r) ==
    /\ req[r].pc = "call"
    /\ req' = [req EXCEPT ![r] = Finished([@ EXCEPT !.calls = @ + 1, !.raisedIn = "call"],
                                          ExceptValue)]
    /\ UNCHANGED <<client, disk, stores, served, result, parsed>>

\* main.py:113-115: send_from_directory answers with the file's bytes, or 404
uploaded_file(r) ==
    /\ Arrives(r)
    /\ \E filename \in RetrieveNames :
        req' = [req EXCEPT ![r] =
                  [@ EXCEPT !.pc = "done", !.route = "uploaded_file", !.method = "GET",
                            !.arg = Name(filename),
                            !.resp = IF filename \in DOMAIN disk
                                     THEN Response(200, "file", Bytes(disk[filename]))
                                     ELSE Response(404, "not_found", None)]]
    /\ UNCHANGED <<client, disk, stores, served, result, parsed>>

\* jinja's lookup of biscuits/<biscuit>.html made case-insensitive
TemplateFound_ignoring_case(biscuit) == LowerLabel(biscuit) \in Templates

\* main.py:121: render_template finds biscuits/<biscuit>.html (else it
\* raises TemplateNotFound)
TemplateFound(biscuit) == biscuit \in Templates

\* main.py:118-123
show_recipe(r) ==
    /\ Arrives(r)
    /\ \E biscuit \in BiscuitArgs :
        req' = [req EXCEPT ![r] =
                  [@ EXCEPT !.pc = "done", !.route = "show_recipe", !.method = "GET",
                            !.arg = Str(biscuit),
                            !.resp = IF TemplateFound(biscuit)
                                     THEN Response(200, "page", Template(biscuit))
                                     ELSE Response(404, "no_recipe", NoRecipeMessage(biscuit))]]
    /\ UNCHANGED <<client, disk, stores, served, result, parsed>>

\* one step of the request r
Step(r) ==
    \/ GetIndex(r)
    \/ PostUpload(r)
    \/ SaveFile(r)
    \/ SaveFailsToOpen(r)
    \/ SaveFailsWriting(r)
    \/ WorkflowNoClient(r)
    \/ ReadImage(r)
    \/ ReadImageFails(r)
    \/ CallWorkflow(r)
    \/ CallWorkflowFails(r)
    \/ uploaded_file(r)
    \/ show_recipe(r)

\* the requests are served concurrently (app.run serves each request on a
\* thread of its own)
Next == \E r \in Requests : Step(r)

Spec == Init /\ [][Next]_vars

-----------------------------------------------------------------------------
(* The same application with its requests served one after another.        *)

\* number of requests served one after another
MaxServed == 3

\* the answered request is gone and the next one may arrive
NextRequest ==
    /\ req[1].pc = "done"
    /\ served + 1 < MaxServed
    /\ served' = served + 1
    /\ req' = [req EXCEPT ![1] = IdleRequest]
    /\ UNCHANGED <<client, disk, stores, result, parsed>>

NextSerial == Step(1) \/ NextRequest

SpecSerial == Init /\ [][NextSerial]_vars

-----------------------------------------------------------------------------
(* Properties of the upload handler.                                       *)

\* the request r is a POST to /
IsPost(r) == req[r].route = "upload_file" /\ req[r].method = "POST"

\* two characters that differ at most in case
SameIgnoringCase(c, d) ==
    c = d \/ {c, d} \in {{"G", "g"}, {"I", "i"}, {"F", "f"}}

\* the name ends in "." and one of png, jpg, jpeg, gif in any mix of cases
HasAllowedExtension(name) ==
    \E e \in ALLOWED_EXTENSIONS :
        /\ Len(name) > Len(e)
        /\ name[Len(name) - Len(e)] = "."
        /\ \A i \in 1..Len(e) : SameIgnoringCase(name[Len(name) - Len(e) + i], e[i])

\* the request touched neither the upload directory nor the inference service
NothingStoredOrInferred(r) ==
    /\ ~req[r].wrote
    /\ ~req[r].saved
    /\ ~req[r].fileRead
    /\ req[r].calls = 0

\* C1: a POST whose file has a non-empty name with an extension outside
\* {png, jpg, jpeg, gif} (any case, or no '.' at all) is answered with the
\* 'Invalid file type' notice, writes no file and makes no inference call.
C1_InvalidTypeRejected ==
    \A r \in Requests :
        (/\ IsPost(r)
         /\ req[r].file.present
         /\ req[r].file.filename # <<>>
         /\ ~HasAllowedExtension(req[r].file.filename))
        => /\ req[r].pc = "done"
           /\ req[r].flashed = <<"Invalid file type.">>
           /\ req[r].resp = UploadForm
           /\ NothingStoredOrInferred(r)

C1_Witness ==
    \E r1, r2 \in Requests :
        /\ IsPost(r1) /\ req[r1].file.present /\ req[r1].file.filename # <<>>
        /\ ~HasDot(req[r1].file.filename)
        /\ req[r1].flashed = <<"Invalid file type.">>
        /\ IsPost(r2) /\ HasDot(req[r2].file.filename)
        /\ ~HasAllowedExtension(req[r2].file.filename)
        /\ req[r2].flashed = <<"Invalid file type.">>

\* C2: a POST whose file field is missing or has an empty file name gets the
\* 'No image file selected' notice and ends before anything is stored or
\* inferred, whatever else it carries.
C2_NoFileSelected ==
    \A r \in Requests :
        (IsPost(r) /\ (~req[r].file.present \/ req[r].file.filename = <<>>))
        => /\ req[r].pc = "done"
           /\ req[r].flashed = <<"No image file selected.">>
           /\ req[r].resp = RedirectToSelf
           /\ NothingStoredOrInferred(r)

C2_Witness ==
    \E r1, r2 \in Requests :
        /\ IsPost(r1) /\ ~req[r1].file.present
        /\ req[r1].flashed = <<"No image file selected.">>
        /\ IsPost(r2) /\ req[r2].file.present /\ req[r2].file.filename = <<>>
        /\ req[r2].file.stream # <<>>
        /\ req[r2].flashed = <<"No image file selected.">>

\* the upload of r passed validation, was stored, and r is answered
StoredAndAnswered(r) == IsPost(r) /\ req[r].saved /\ req[r].pc = "done"

FailedNotice == <<"Prediction failed or returned no result.">>

\* C4 as stated: a stored upload is redirected to the page of label L exactly
\* when the inference returned L, any value other than none; on none there is
\* no redirect but the failure notice and the form.
C4_RedirectIffNotNone ==
    \A r \in Requests :
        StoredAndAnswered(r) =>
            /\ req[r].calls <= 1
            /\ IF req[r].predicted_class # None
               THEN req[r].resp = RedirectToRecipe(req[r].predicted_class)
               ELSE req[r].resp = UploadForm /\ req[r].flashed = FailedNotice

\* a label that is neither none nor empty
NonEmptyLabel(label) == label # None /\ label # Str("")

\* C4 amended: a stored upload is redirected to the page of label L exactly
\* when the inference returned a non-empty label L; when it returned none or
\* an empty label there is no redirect but the failure notice and the form.
\* At most one inference call, so at most one label, per request.
C4_RedirectIffNonEmptyLabel ==
    \A r \in Requests :
        StoredAndAnswered(r) =>
            /\ req[r].calls <= 1
            /\ req[r].predicted_class # NotRun
            /\ IF NonEmptyLabel(req[r].predicted_class)
               THEN req[r].resp = RedirectToRecipe(req[r].predicted_class)
                    /\ req[r].flashed = <<>>
               ELSE req[r].resp = UploadForm /\ req[r].flashed = FailedNotice

C4_Witness ==
    \E r1, r2 \in Requests :
        /\ StoredAndAnswered(r1) /\ req[r1].predicted_class = Str("")
        /\ req[r1].calls = 1 /\ req[r1].resp = UploadForm
        /\ StoredAndAnswered(r2) /\ req[r2].predicted_class = Str("ginger")
        /\ req[r2].resp = RedirectToRecipe(Str("ginger"))

\* C5: every failure on the upload path (no file, invalid type, storage
\* failure, client unavailable, call failure, no label) ends the request
\* with a notice and the form; none leaves the handler unhandled.
C5_NoFailureEscapes ==
    \A r \in Requests :
        (IsPost(r) /\ req[r].pc = "done") =>
            /\ req[r].resp.kind # "unhandled"
            /\ req[r].resp.kind # "redirect_recipe" =>
                   /\ req[r].flashed # <<>>
                   /\ req[r].resp \in {UploadForm, RedirectToSelf}

\* The part of C5 the code does satisfy (not a claim): every failure other
\* than one of file.save ends with a notice and the form.
FailuresAfterSaveAreCaught ==
    \A r \in Requests :
        (IsPost(r) /\ req[r].pc = "done" /\ (req[r].saved \/ ~req[r].wrote)
         /\ req[r].resp # Unhandled /\ req[r].resp.kind # "redirect_recipe") =>
            /\ req[r].flashed # <<>>
            /\ req[r].resp \in {UploadForm, RedirectToSelf}

\* C6: run_roboflow_workflow returns none, and raises nothing to upload_file,
\* when the client failed to initialize (then the image is not read and no
\* call is made) and when the read or the call raises; and it makes at most
\* one call.
C6_ClassifyNeverRaises ==
    \A r \in Requests :
        req[r].saved =>
            /\ req[r].calls <= 1
            /\ client = "None" =>
                   /\ ~req[r].fileRead /\ req[r].calls = 0 /\ req[r].image_b64 = <<>>
                   /\ req[r].pc = "done" => req[r].predicted_class = None
            /\ req[r].raisedIn # "" =>
                   req[r].pc = "done" /\ req[r].predicted_class = None
            /\ req[r].pc = "done" =>
                   req[r].resp # Unhandled /\ req[r].predicted_class # NotRun

C6_Witness ==
    \E r1, r2 \in Requests :
        /\ StoredAndAnswered(r1) /\ req[r1].raisedIn = "call"
        /\ req[r1].calls = 1 /\ req[r1].predicted_class = None
        /\ StoredAndAnswered(r2) /\ req[r2].raisedIn = "read"
        /\ req[r2].calls = 0 /\ req[r2].predicted_class = None

\* the request r is a GET /biskut/<biscuit>
IsRecipe(r) == req[r].route = "show_recipe"

\* C7: GET /biskut/<label> answers with the page named exactly after the
\* label and status 200 if there is one, else with the "no recipe page
\* found" message naming the label and status 404; it never fails, and it
\* changes nothing that is stored.
C7_RecipeLookup ==
    /\ [](\A r \in Requests :
            IsRecipe(r) =>
                /\ req[r].pc = "done"
                /\ IF \E t \in Templates : Str(t) = req[r].arg
                   THEN req[r].resp = Response(200, "page", Template(req[r].arg.v))
                   ELSE req[r].resp = Response(404, "no_recipe", NoRecipeMessage(req[r].arg.v)))
    /\ [][\A r \in Requests :
            (~IsRecipe(r) /\ IsRecipe(r)') =>
                /\ UNCHANGED <<client, disk, stores>>
                /\ \A o \in Requests \ {r} : req'[o] = req[o]]_vars

C7_Witness ==
    \E r1, r2 \in Requests :
        /\ IsRecipe(r1) /\ req[r1].arg = Str("oatmeal") /\ req[r1].resp.status = 200
        /\ IsRecipe(r2) /\ req[r2].arg = Str("Oatmeal") /\ req[r2].resp.status = 404
        /\ req[r2].resp.body = NoRecipeMessage("Oatmeal")

\* the request r is a GET /uploads/<filename>
IsRetrieve(r) == req[r].route = "uploaded_file"

\* C8 as stated: GET /uploads/N answers with exactly the bytes of the most
\* recent completed store under N, and with not-found if no store under N
\* ever happened.
C8_RetrieveLastCompletedStore ==
    \A r \in Requests :
        IsRetrieve(r) =>
            /\ req[r].arg.v \notin DOMAIN stores =>
                   req[r].resp = Response(404, "not_found", None)
            /\ (req[r].arg.v \in DOMAIN stores /\ stores[req[r].arg.v].completed # None) =>
                   req[r].resp = Response(200, "file", stores[req[r].arg.v].completed)

\* C8 amended: with the requests served one after another, GET /uploads/N
\* answers with exactly the bytes the most recent store under N left in the
\* file (all of them if it completed, those written before the error if it
\* failed after opening the file), and with not-found if no store under N
\* ever opened the file.
C8_RetrieveLastStore ==
    \A r \in Requests :
        IsRetrieve(r) =>
            req[r].resp =
                IF req[r].arg.v \in DOMAIN stores
                THEN Response(200, "file", stores[req[r].arg.v].last)
                ELSE Response(404, "not_found", None)

C8_Witness ==
    \E r \in Requests :
        /\ IsRetrieve(r)
        /\ req[r].arg.v \in DOMAIN stores
        /\ stores[req[r].arg.v].n >= 2
        /\ stores[req[r].arg.v].completed = stores[req[r].arg.v].last
        /\ req[r].resp = Response(200, "file", Bytes(<<7, 9>>))

\* the request r read its image back and encoded it
HasEncodedImage(r) ==
    IsPost(r) /\ req[r].saved /\ req[r].fileRead /\ req[r].raisedIn # "read"

\* C10 as stated: under any interleaving the bytes sent to the inference
\* service for a request are the bytes that request uploaded, also when two
\* requests have the same sanitized file name.
C10_OwnImageSent ==
    \A r \in Requests :
        HasEncodedImage(r) => b64decode(req[r].image_b64) = req[r].file.stream

\* another request wrote under the sanitized name of r
NameCollision(r) ==
    \E o \in Requests \ {r} : req[o].wrote /\ req[o].filename = req[r].filename

\* C10 amended: the bytes sent for a request are the bytes it uploaded unless
\* another request wrote a file under the same sanitized name; then they
\* are what the last of these writes left in the file.
C10_OwnImageUnlessCollision ==
    \A r \in Requests :
        HasEncodedImage(r) =>
            \/ b64decode(req[r].image_b64) = req[r].file.stream
            \/ /\ NameCollision(r)
               /\ \E o \in Requests \ {r} :
                    /\ req[o].wrote /\ req[o].filename = req[r].filename
                    /\ \E k \in 0..Len(req[o].file.stream) :
                         b64decode(req[r].image_b64) = SubSeq(req[o].file.stream, 1, k)

C10_Witness ==
    \E r1, r2 \in Requests :
        /\ r1 # r2
        /\ HasEncodedImage(r1) /\ HasEncodedImage(r2)
        /\ req[r1].file.filename # req[r2].file.filename
        /\ req[r1].filename = req[r2].filename
        /\ req[r1].file.stream = <<7>>
        /\ b64decode(req[r1].image_b64) = <<7, 9>>
        /\ b64decode(req[r2].image_b64) = req[r2].file.stream

====
